---- MODULE Spec2Model ----
(***************************************************************************)
(* LINE Messaging API webhook (app/routers/line.py) and the reply call of  *)
(* LineService (app/services/line_service.py).                             *)
(*                                                                         *)
(* A request is a raw body and an optional X-Line-Signature header.  The   *)
(* handler line_webhook verifies the signature, parses the body, and runs  *)
(* handle_line_event on every element of data["events"], one after the     *)
(* other.  The conversation store (app.database), the completion call      *)
(* (app.services.openai_service.complete_once) and the HTTP transport of   *)
(* LineService are collaborators: each call is recorded in `calls` and     *)
(* either returns or raises.                                               *)
(***************************************************************************)
EXTENDS Integers, Sequences, FiniteSets, TLC

(* ------------------------------ bounds --------------------------------- *)

\* longest "events" list of an envelope
MaxEvents == 2

(* --------------------------- python values ----------------------------- *)

\* Python's None, for a string-valued field (a missing key read with .get)
None == "None"

\* `not v` for an Optional[str]: None and the empty string are both falsy
Falsy(v) == v \in {None, ""}

\* line_webhook's parameter x_line_signature: Optional[str] = Header(None).
\* A header value is modelled as a tuple; the absent header and the empty
\* header value are two different falsy values.
SigNone == <<"None">>
SigEmpty == <<>>
SigFalsy(s) == s \in {SigNone, SigEmpty}

(* ------------------------------ texts ---------------------------------- *)

SystemPrompt == "system_prompt"
NoContentApology == "apology_no_response"
ErrorApology == "apology_error"

\* the text a successful completion generates for the user message q
Answer(q) == "answer_to_" \o q

(* ------------------------------ inputs --------------------------------- *)

\* An element of data["events"].  kind = "nondict" is a JSON value that is
\* not an object (string, number, null, list).  `message` and `source` say
\* whether the key is absent, holds a JSON object, or holds something else.
Users == {"U1", "U2"}

TextEvent(u, t, q) ==
    [kind |-> "dict", type |-> "message",
     message |-> "dict", mtype |-> "text", text |-> q,
     source |-> "dict", userId |-> u, replyToken |-> t]

Ev1 == TextEvent("U1", "T1", "Q1")
Ev2 == TextEvent("U2", "T2", "Q2")

EventShapes ==
    { Ev1, Ev2,
      [Ev1 EXCEPT !.kind = "nondict"],
      [Ev1 EXCEPT !.type = "follow"],
      [Ev1 EXCEPT !.message = "absent", !.mtype = None, !.text = None],
      [Ev1 EXCEPT !.message = "nondict", !.mtype = None, !.text = None],
      [Ev1 EXCEPT !.mtype = "image", !.text = None],
      [Ev1 EXCEPT !.source = "absent", !.userId = None],
      [Ev1 EXCEPT !.source = "nondict", !.userId = None],
      [Ev1 EXCEPT !.userId = ""],
      [Ev1 EXCEPT !.replyToken = None],
      [Ev1 EXCEPT !.replyToken = ""],
      [Ev1 EXCEPT !.text = None],
      [Ev1 EXCEPT !.text = ""] }

(* --------------------------- event filter ------------------------------ *)

\* handle_line_event, line.py 76-91: "raise" when a .get is applied to a value
\* that is not a dict (AttributeError, outside the try), "return" for an early
\* return, "actionable" when the try block is entered
Classify(event) ==
    IF event.kind # "dict" THEN "raise"
    ELSE IF event.type # "message" THEN "return"
    ELSE IF event.message = "nondict" THEN "raise"
    ELSE IF event.message = "absent" \/ event.mtype # "text" THEN "return"
    ELSE IF event.source = "nondict" THEN "raise"
    ELSE LET user_id == IF event.source = "absent" THEN None ELSE event.userId
             reply_token == event.replyToken
             user_message == IF event.text = None THEN "" ELSE event.text
         IN IF Falsy(user_id) \/ Falsy(reply_token) \/ Falsy(user_message)
            THEN "return"
            ELSE "actionable"

(* ----------------------------- requests -------------------------------- *)

\* The "events" lists of at most MaxEvents elements.  The platform issues a
\* fresh reply token with every event, so two actionable events of one
\* envelope never carry the same token.
Envelopes ==
    { e \in UNION { [1..n -> EventShapes] : n \in 0..MaxEvents } :
        \A i, j \in DOMAIN e :
           (i # j /\ Classify(e[i]) = "actionable" /\ Classify(e[j]) = "actionable")
              => e[i].replyToken # e[j].replyToken }

\* A request body.  kind says what json.loads(body) and data.get("events", [])
\* make of the bytes:
\*   "badutf8"    bytes that are not valid UTF-8 (b'\xff')
\*   "badjson"    text that is not JSON
\*   "nondict"    JSON, but not an object ([], 1, null)
\*   "noevents"   an object without the key "events"
\*   "nullevents" an object whose "events" is null
\*   "list"       an object whose "events" is the list `events`
Bodies ==
    { [kind |-> k, events |-> <<>>] :
         k \in {"badjson", "badutf8", "nondict", "noevents", "nullevents"} }
    \cup { [kind |-> "list", events |-> e] : e \in Envelopes }

Secrets == {"", "K1"}

\* hmac.new(key, body, hashlib.sha256).digest(): one digest per (key, body)
HmacSha256(key, body) == <<key, body>>

\* base64.b64encode(digest).decode('utf-8'): never the empty string
B64Encode(digest) == <<"b64">> \o digest

\* the header values a sender can put on body b: none, an empty value, the
\* signature under the channel secret K1, a signature under another key
SignaturesFor(b) ==
    { SigNone, SigEmpty,
      B64Encode(HmacSha256("K1", b)), B64Encode(HmacSha256("K2", b)) }

Requests ==
    UNION { { [body |-> b, sig |-> s] : s \in SignaturesFor(b) } : b \in Bodies }

(* ------------------------------- state --------------------------------- *)

VARIABLES
    LINE_CHANNEL_SECRET,  \* module-level configuration, read once at import
    req,     \* req[r]: the request r as received (body, signature header)
    pc,      \* pc[r]: where line_webhook / handle_line_event stands
    idx,     \* idx[r]: position of the for loop in data["events"] (1-based)
    resp,    \* resp[r]: the HTTP response, status 0 while there is none
    loc,     \* loc[r]: locals of the running handle_line_event
    store,   \* store[u]: the turns stored for user u, oldest first
    calls    \* every downstream call issued so far, in issue order

vars == <<LINE_CHANNEL_SECRET, req, pc, idx, resp, loc, store, calls>>

Reqs == DOMAIN req

NoResponse == [status |-> 0, detail |-> ""]
NoLocals == [user_id |-> None, reply_token |-> None, user_message |-> None,
             ai_response |-> None]

InitWith(rs) ==
    /\ LINE_CHANNEL_SECRET \in Secrets
    /\ req \in [rs -> Requests]
    /\ pc = [r \in rs |-> "received"]
    /\ idx = [r \in rs |-> 0]
    /\ resp = [r \in rs |-> NoResponse]
    /\ loc = [r \in rs |-> NoLocals]
    /\ store = [u \in Users |-> <<>>]
    /\ calls = <<>>

Init == InitWith({1})

(* ------------------------- signature check ----------------------------- *)

\* verify_signature without the test of the secret: only a missing
\* signature skips the comparison
verify_signature_SecretNotTested(body, signature) ==
    IF SigFalsy(signature)
    THEN TRUE
    ELSE signature = B64Encode(HmacSha256(LINE_CHANNEL_SECRET, body))

\* verify_signature(body, signature), line.py 22-42
verify_signature(body, signature) ==
    IF LINE_CHANNEL_SECRET = "" \/ SigFalsy(signature)
    THEN TRUE
    ELSE signature = B64Encode(HmacSha256(LINE_CHANNEL_SECRET, body))

\* the condition of line 57 under which line_webhook raises HTTPException(400)
SignatureRejected(r) ==
    /\ ~SigFalsy(req[r].sig)
    /\ ~verify_signature(req[r].body, req[r].sig)

(* ------------------------------ parsing -------------------------------- *)

\* json.loads(body) inside try/except json.JSONDecodeError, line.py 60-63:
\* the exception it raises, "none" when it returns
JsonLoads(body) ==
    CASE body.kind = "badutf8" -> "UnicodeDecodeError"
      [] body.kind = "badjson" -> "JSONDecodeError"
      [] OTHER -> "none"

\* data.get("events", []) and the start of the iteration, line.py 66
DataEvents(body) ==
    CASE body.kind = "nondict" -> [exc |-> "AttributeError", events |-> <<>>]
      [] body.kind = "nullevents" -> [exc |-> "TypeError", events |-> <<>>]
      [] body.kind = "noevents" -> [exc |-> "none", events |-> <<>>]
      [] OTHER -> [exc |-> "none", events |-> body.events]

(* ---------------------------- collaborators ---------------------------- *)

Outcomes == {"ok", "raise"}

\* what complete_once can do: raise, or return a dict whose "content" is a
\* generated text, is missing, is null or is the empty string
CompletionOutcomes == {"raise", "content", "missing", "null", "empty"}

\* result.get("content", <no-content apology>), line.py 112
ResultGet(outcome, user_message) ==
    CASE outcome = "content" -> Answer(user_message)
      [] outcome = "missing" -> NoContentApology
      [] outcome = "null" -> None
      [] OTHER -> ""

HistoryLimit == 10

\* app.database.get_line_conversation(user_id, limit): the last `limit` turns
\* of the user, oldest first
get_line_conversation(turns, limit) ==
    IF Len(turns) <= limit THEN turns
    ELSE SubSeq(turns, Len(turns) - limit + 1, Len(turns))

\* the message list with the new user message put before the history
Messages_HistoryLast(history, user_message) ==
    <<[role |-> "system", content |-> SystemPrompt],
      [role |-> "user", content |-> user_message]>> \o history

\* the message list of line.py 104-108
Messages(history, user_message) ==
    <<[role |-> "system", content |-> SystemPrompt]>> \o history
       \o <<[role |-> "user", content |-> user_message]>>

\* one record of `calls`
CallRec(op, r, i) ==
    [op |-> op, req |-> r, ev |-> i, user |-> None, role |-> None,
     token |-> None, text |-> None, msgs |-> <<>>, res |-> "pending"]

\* LineService.reply_message up to the awaited POST, line_service.py 23-39:
\* the payload carries reply_token and text
reply_message(cs, r, i, reply_token, text) ==
    Append(cs, [CallRec("reply_message", r, i) EXCEPT
                   !.token = reply_token, !.text = text])

\* the awaited call of request r returns or raises
Settle(cs, r, res) ==
    [k \in DOMAIN cs |->
        IF cs[k].req = r /\ cs[k].res = "pending"
        THEN [cs[k] EXCEPT !.res = res] ELSE cs[k]]

\* save_user_message with the two appends swapped: the assistant turn first
save_user_message_AssistantFirst(step, user_message, ai_response) ==
    IF step = 1
    THEN [role |-> "assistant", content |-> ai_response]
    ELSE [role |-> "user", content |-> user_message]

\* save_user_message, line.py 142-150: the turn its step-th save_line_message
\* appends, the user turn first, the assistant turn second
save_user_message(step, user_message, ai_response) ==
    IF step = 1
    THEN [role |-> "user", content |-> user_message]
    ELSE [role |-> "assistant", content |-> ai_response]

\* the save_line_message call of one step of save_user_message
SaveCall(r, i, user_id, turn) ==
    [CallRec("save_line_message", r, i) EXCEPT
        !.user = user_id, !.role = turn.role, !.text = turn.content]

\* get_user_conversation that swallows a failed read and goes on with an
\* empty history
get_user_conversation_Swallowed(turns, o) ==
    [raised |-> FALSE,
     history |-> IF o = "raise" THEN <<>>
                 ELSE get_line_conversation(turns, HistoryLimit)]

\* get_user_conversation, line.py 133-139: the read of the last 10 turns; an
\* exception of get_line_conversation is not caught here
get_user_conversation(turns, o) ==
    [raised |-> o = "raise",
     history |-> IF o = "raise" THEN <<>>
                 ELSE get_line_conversation(turns, HistoryLimit)]

\* the store calls made as if they were awaited: the event loop is released
Synchronous_Awaited(p) == FALSE

\* the positions at which the coroutine is inside a call it does not await:
\* get_line_conversation (line.py 137) and the two save_line_message
\* (line.py 147, 149) are plain calls, so the event loop runs nothing else
\* until they return
Synchronous(p) == p \in {"reading", "savingUser", "savingAssistant"}

\* the except branch that only logs and attempts no reply
Fallback_NotAttempted(cs, r, i, reply_token) == cs

\* the except branch replying with the no-content apology instead of the
\* error apology
Fallback_NoContentText(cs, r, i, reply_token) ==
    reply_message(cs, r, i, reply_token, NoContentApology)

\* the except branch of handle_line_event, line.py 120-128: one reply_message
\* with the error apology and the event's reply_token
Fallback(cs, r, i, reply_token) ==
    reply_message(cs, r, i, reply_token, ErrorApology)

(* ------------------------------ actions -------------------------------- *)

\* the event loop is not held by another request: no other coroutine is
\* inside a call it does not await
LoopFree(r) == \A r2 \in Reqs \ {r} : ~Synchronous(pc[r2])

\* a handler that answers ok whatever happened
Respond_AlwaysOk(r, status, detail) ==
    /\ resp' = [resp EXCEPT ![r] = [status |-> 200, detail |-> "ok"]]
    /\ pc' = [pc EXCEPT ![r] = "done"]

Respond(r, status, detail) ==
    /\ resp' = [resp EXCEPT ![r] = [status |-> status, detail |-> detail]]
    /\ pc' = [pc EXCEPT ![r] = "done"]

\* a loop that walks the events from the last to the first
CurrentEvent_Reversed(r) ==
    DataEvents(req[r].body).events[
        Len(DataEvents(req[r].body).events) - idx[r] + 1]

\* the event the for loop of request r is at
CurrentEvent(r) == DataEvents(req[r].body).events[idx[r]]

\* handle_line_event returns: the for loop moves to the next event
NextEvent(r) ==
    /\ idx' = [idx EXCEPT ![r] = @ + 1]
    /\ loc' = [loc EXCEPT ![r] = NoLocals]
    /\ pc' = [pc EXCEPT ![r] = "loop"]

\* line.py 54-58: body read, signature check, 400 on a rejected signature
line_webhook_verify(r) ==
    /\ pc[r] = "received"
    /\ LoopFree(r)
    /\ IF SignatureRejected(r)
       THEN Respond(r, 400, "Invalid signature")
       ELSE /\ pc' = [pc EXCEPT ![r] = "authenticated"]
            /\ UNCHANGED resp
    /\ UNCHANGED <<LINE_CHANNEL_SECRET, req, idx, loc, store, calls>>

\* line.py 60-63: json.loads; JSONDecodeError becomes a 400, any other
\* exception leaves the handler and the framework answers 500
line_webhook_parse(r) ==
    /\ pc[r] = "authenticated"
    /\ LoopFree(r)
    /\ CASE JsonLoads(req[r].body) = "JSONDecodeError" ->
              Respond(r, 400, "Invalid JSON")
         [] JsonLoads(req[r].body) = "none" ->
              /\ pc' = [pc EXCEPT ![r] = "parsed"]
              /\ UNCHANGED resp
         [] OTHER -> Respond(r, 500, JsonLoads(req[r].body))
    /\ UNCHANGED <<LINE_CHANNEL_SECRET, req, idx, loc, store, calls>>

\* line.py 66: data.get("events", []) is evaluated and the loop starts
line_webhook_events(r) ==
    /\ pc[r] = "parsed"
    /\ LoopFree(r)
    /\ IF DataEvents(req[r].body).exc # "none"
       THEN /\ Respond(r, 500, DataEvents(req[r].body).exc)
            /\ UNCHANGED idx
       ELSE /\ pc' = [pc EXCEPT ![r] = "loop"]
            /\ idx' = [idx EXCEPT ![r] = 1]
            /\ UNCHANGED resp
    /\ UNCHANGED <<LINE_CHANNEL_SECRET, req, loc, store, calls>>

\* line.py 67 and 72-98: handle_line_event on the current event, up to the
\* call of get_line_conversation.  An event that is filtered out returns at
\* once; an AttributeError of the filter leaves line_webhook (500).
handle_line_event(r) ==
    /\ pc[r] = "loop"
    /\ LoopFree(r)
    /\ idx[r] <= Len(DataEvents(req[r].body).events)
    /\ LET event == CurrentEvent(r)
           i == idx[r]
       IN CASE Classify(event) = "raise" ->
                 /\ Respond(r, 500, "AttributeError")
                 /\ UNCHANGED <<idx, loc, calls>>
            [] Classify(event) = "return" ->
                 /\ NextEvent(r)
                 /\ UNCHANGED <<resp, calls>>
            [] OTHER ->
                 /\ loc' = [loc EXCEPT ![r] =
                              [user_id |-> event.userId,
                               reply_token |-> event.replyToken,
                               user_message |-> event.text,
                               ai_response |-> None]]
                 /\ calls' = Append(calls,
                               [CallRec("get_line_conversation", r, i) EXCEPT
                                   !.user = event.userId])
                 /\ pc' = [pc EXCEPT ![r] = "reading"]
                 /\ UNCHANGED <<idx, resp>>
    /\ UNCHANGED <<LINE_CHANNEL_SECRET, req, store>>

\* line.py 98-111: the history read returns and complete_once is awaited with
\* the message list, or the read raises and the except branch issues the
\* fallback reply
get_user_conversation_returns(r) ==
    /\ pc[r] = "reading"
    /\ LoopFree(r)
    /\ \E o \in Outcomes :
         LET l == loc[r]
             got == get_user_conversation(store[l.user_id], o)
             cs == Settle(calls, r, o)
         IN IF got.raised
            THEN /\ calls' = Fallback(cs, r, idx[r], l.reply_token)
                 /\ pc' = [pc EXCEPT ![r] = "awaitFallback"]
            ELSE /\ calls' = Append(cs,
                               [CallRec("complete_once", r, idx[r]) EXCEPT
                                   !.user = l.user_id,
                                   !.msgs = Messages(got.history, l.user_message)])
                 /\ pc' = [pc EXCEPT ![r] = "awaitCompletion"]
    /\ UNCHANGED <<LINE_CHANNEL_SECRET, req, idx, resp, loc, store>>

\* line.py 111-115 and 147: complete_once returns and the first append of
\* save_user_message is called, or complete_once raises and the fallback is
\* issued
complete_once_returns(r) ==
    /\ pc[r] = "awaitCompletion"
    /\ LoopFree(r)
    /\ \E c \in CompletionOutcomes :
         LET l == loc[r]
             cs == Settle(calls, r, c)
             ai_response == ResultGet(c, l.user_message)
         IN IF c = "raise"
            THEN /\ calls' = Fallback(cs, r, idx[r], l.reply_token)
                 /\ pc' = [pc EXCEPT ![r] = "awaitFallback"]
                 /\ UNCHANGED loc
            ELSE /\ loc' = [loc EXCEPT ![r].ai_response = ai_response]
                 /\ calls' = Append(cs, SaveCall(r, idx[r], l.user_id,
                                 save_user_message(1, l.user_message, ai_response)))
                 /\ pc' = [pc EXCEPT ![r] = "savingUser"]
    /\ UNCHANGED <<LINE_CHANNEL_SECRET, req, idx, resp, store>>

\* line.py 147-149: the first save_line_message returns, its turn is in the
\* store and the second one is called; or it raises and the fallback is issued
save_user_turn_returns(r) ==
    /\ pc[r] = "savingUser"
    /\ LoopFree(r)
    /\ \E o \in Outcomes :
         LET l == loc[r]
             cs == Settle(calls, r, o)
         IN IF o = "raise"
            THEN /\ calls' = Fallback(cs, r, idx[r], l.reply_token)
                 /\ pc' = [pc EXCEPT ![r] = "awaitFallback"]
                 /\ UNCHANGED store
            ELSE /\ store' = [store EXCEPT ![l.user_id] = Append(@,
                                 save_user_message(1, l.user_message, l.ai_response))]
                 /\ calls' = Append(cs, SaveCall(r, idx[r], l.user_id,
                                 save_user_message(2, l.user_message, l.ai_response)))
                 /\ pc' = [pc EXCEPT ![r] = "savingAssistant"]
    /\ UNCHANGED <<LINE_CHANNEL_SECRET, req, idx, resp, loc>>

\* line.py 149 and 118: the second save_line_message returns, its turn is in
\* the store and the reply is issued; or it raises and the fallback is issued
save_assistant_turn_returns(r) ==
    /\ pc[r] = "savingAssistant"
    /\ LoopFree(r)
    /\ \E o \in Outcomes :
         LET l == loc[r]
             cs == Settle(calls, r, o)
         IN IF o = "raise"
            THEN /\ calls' = Fallback(cs, r, idx[r], l.reply_token)
                 /\ pc' = [pc EXCEPT ![r] = "awaitFallback"]
                 /\ UNCHANGED store
            ELSE /\ store' = [store EXCEPT ![l.user_id] = Append(@,
                                 save_user_message(2, l.user_message, l.ai_response))]
                 /\ calls' = reply_message(cs, r, idx[r], l.reply_token,
                                           l.ai_response)
                 /\ pc' = [pc EXCEPT ![r] = "awaitReply"]
    /\ UNCHANGED <<LINE_CHANNEL_SECRET, req, idx, resp, loc>>

\* line.py 118 and line_service.py 39-41: the POST of the reply returns, or
\* raises (transport error, non-2xx status) and the fallback is issued
reply_message_returns(r) ==
    /\ pc[r] = "awaitReply"
    /\ LoopFree(r)
    /\ \E o \in Outcomes :
         IF o = "ok"
         THEN /\ calls' = Settle(calls, r, "ok")
              /\ NextEvent(r)
         ELSE /\ calls' = Fallback(Settle(calls, r, "raise"), r, idx[r],
                                   loc[r].reply_token)
              /\ pc' = [pc EXCEPT ![r] = "awaitFallback"]
              /\ UNCHANGED <<idx, loc>>
    /\ UNCHANGED <<LINE_CHANNEL_SECRET, req, resp, store>>

\* line.py 123-130: the POST of the fallback reply returns or raises; the
\* bare except swallows the exception and handle_line_event returns
fallback_returns(r) ==
    /\ pc[r] = "awaitFallback"
    /\ LoopFree(r)
    /\ \E o \in Outcomes : calls' = Settle(calls, r, o)
    /\ NextEvent(r)
    /\ UNCHANGED <<LINE_CHANNEL_SECRET, req, resp, store>>

\* line.py 69: the loop is over, the handler returns {"status": "ok"}
line_webhook_return(r) ==
    /\ pc[r] = "loop"
    /\ LoopFree(r)
    /\ idx[r] > Len(DataEvents(req[r].body).events)
    /\ Respond(r, 200, "ok")
    /\ UNCHANGED <<LINE_CHANNEL_SECRET, req, idx, loc, store, calls>>

Next ==
    \/ \E r \in Reqs : line_webhook_verify(r)
    \/ \E r \in Reqs : line_webhook_parse(r)
    \/ \E r \in Reqs : line_webhook_events(r)
    \/ \E r \in Reqs : handle_line_event(r)
    \/ \E r \in Reqs : get_user_conversation_returns(r)
    \/ \E r \in Reqs : complete_once_returns(r)
    \/ \E r \in Reqs : save_user_turn_returns(r)
    \/ \E r \in Reqs : save_assistant_turn_returns(r)
    \/ \E r \in Reqs : reply_message_returns(r)
    \/ \E r \in Reqs : fallback_returns(r)
    \/ \E r \in Reqs : line_webhook_return(r)

Spec == Init /\ [][Next]_vars

TypeOK ==
    /\ LINE_CHANNEL_SECRET \in Secrets
    /\ \A r \in Reqs :
         /\ pc[r] \in {"received", "authenticated", "parsed", "loop",
                       "reading", "awaitCompletion", "savingUser",
                       "savingAssistant", "awaitReply", "awaitFallback", "done"}
         /\ resp[r].status \in {0, 200, 400, 500}
         /\ idx[r] \in 0..(MaxEvents + 1)

(* ------------------- a user with a stored history ----------------------- *)

\* most turns the store holds for a user before the request arrives
MaxStored == 20

\* a second text message of user U1
Ev3 == TextEvent("U1", "T2", "Q3")

\* n turns stored earlier: user and assistant turns in alternation
History(n) ==
    [k \in 1..n |-> [role |-> IF k % 2 = 1 THEN "user" ELSE "assistant",
                     content |-> "h" \o ToString(k)]]

\* envelopes of text messages only, two of them possibly of the same user
TextEnvelopes ==
    { e \in UNION { [1..n -> {Ev1, Ev2, Ev3}] : n \in 1..MaxEvents } :
        \A i, j \in DOMAIN e : i # j => e[i].replyToken # e[j].replyToken }

\* one unsigned request with text messages, U1 having 0..MaxStored turns
InitHistory ==
    /\ LINE_CHANNEL_SECRET \in Secrets
    /\ req \in [{1} -> { [body |-> [kind |-> "list", events |-> e],
                          sig |-> SigNone] : e \in TextEnvelopes }]
    /\ pc = [r \in {1} |-> "received"]
    /\ idx = [r \in {1} |-> 0]
    /\ resp = [r \in {1} |-> NoResponse]
    /\ loc = [r \in {1} |-> NoLocals]
    /\ \E n \in 0..MaxStored :
          store = [u \in Users |-> IF u = "U1" THEN History(n) ELSE <<>>]
    /\ calls = <<>>

SpecHistory == InitHistory /\ [][Next]_vars

(* ---------------------- two concurrent requests ------------------------- *)

\* Two unsigned requests handled by the same event loop, each with one text
\* message: request 1 of user U1, request 2 of the same user or of U2.
InitConcurrent ==
    /\ LINE_CHANNEL_SECRET \in Secrets
    /\ \E e \in {Ev2, Ev3} :
          req = [r \in {1, 2} |->
                   [body |-> [kind |-> "list",
                              events |-> <<IF r = 1 THEN Ev1 ELSE e>>],
                    sig |-> SigNone]]
    /\ pc = [r \in {1, 2} |-> "received"]
    /\ idx = [r \in {1, 2} |-> 0]
    /\ resp = [r \in {1, 2} |-> NoResponse]
    /\ loc = [r \in {1, 2} |-> NoLocals]
    /\ store = [u \in Users |-> <<>>]
    /\ calls = <<>>

SpecConcurrent == InitConcurrent /\ [][Next]_vars

(* ------------------------- derived quantities --------------------------- *)

\* the events of request r, the calls issued for its i-th event, the
\* reply_message calls among them
EventsOf(r) == DataEvents(req[r].body).events
Per(r, i) == SelectSeq(calls, LAMBDA c : c.req = r /\ c.ev = i)
Replies(r, i) == SelectSeq(Per(r, i), LAMBDA c : c.op = "reply_message")
Saves(r, i) == SelectSeq(Per(r, i), LAMBDA c : c.op = "save_line_message")
CallsOf(r) == SelectSeq(calls, LAMBDA c : c.req = r)

\* handle_line_event has returned for the i-th event of request r
Handled(r, i) == i < idx[r]

\* the signature the platform computes for request r under the configured secret
ExpectedSignature(r) == B64Encode(HmacSha256(LINE_CHANNEL_SECRET, req[r].body))

Ok200 == [status |-> 200, detail |-> "ok"]

\* the turns the successful appends for user u add up to, in call order
TurnsSaved(u) ==
    LET s == SelectSeq(calls, LAMBDA c : c.op = "save_line_message"
                                          /\ c.user = u /\ c.res = "ok")
    IN  [k \in DOMAIN s |-> [role |-> s[k].role, content |-> s[k].text]]

\* the store holds exactly the turns of the successful appends, and a
\* response is only ever given once the request has no call outstanding
StoreMatchesCalls ==
    /\ \A u \in Users :
         /\ Len(store[u]) = Len(TurnsSaved(u))
         /\ \A k \in DOMAIN store[u] : store[u][k] = TurnsSaved(u)[k]
    /\ \A r \in Reqs :
         resp[r] # NoResponse =>
            /\ pc[r] = "done"
            /\ \A k \in DOMAIN calls : calls[k].req = r => calls[k].res # "pending"

(* ------------------------------- claims --------------------------------- *)

\* C1: handling an actionable event issues exactly one reply_message call,
\* whatever the store, the completion and the transport do; every reply call
\* carries the token of the event it is issued for, and no token is used for
\* two calls.
C1_ExactlyOneReply ==
    /\ \A r \in Reqs : \A i \in DOMAIN EventsOf(r) :
         Classify(EventsOf(r)[i]) = "actionable" =>
            /\ Len(Replies(r, i)) <= 1
            /\ Handled(r, i) => Len(Replies(r, i)) = 1
            /\ \A k \in DOMAIN Replies(r, i) :
                  Replies(r, i)[k].token = EventsOf(r)[i].replyToken
    /\ \A j, k \in DOMAIN calls :
         (j # k /\ calls[j].op = "reply_message" /\ calls[k].op = "reply_message")
            => calls[j].token # calls[k].token

\* C2: a request that passes the signature check and whose body is
\* well-formed JSON is answered 200 {"status": "ok"}.
C2_WellFormedIsOk ==
    \A r \in Reqs :
       (/\ ~SignatureRejected(r)
        /\ JsonLoads(req[r].body) = "none"
        /\ pc[r] = "done")
          => resp[r] = Ok200

\* C3: with a secret configured, a request carrying a signature header that
\* differs from the expected signature is answered 400 and goes no further:
\* the body is not parsed and no downstream call is issued.
C3_WrongHeaderRejected ==
    \A r \in Reqs :
       (/\ LINE_CHANNEL_SECRET # ""
        /\ req[r].sig # SigNone
        /\ req[r].sig # ExpectedSignature(r))
          => /\ pc[r] \in {"received", "done"}
             /\ pc[r] = "done" => resp[r].status = 400
             /\ CallsOf(r) = <<>>

\* C4: with a secret configured, a request whose signature is bad or missing
\* is rejected and has no side effect.
C4_BadOrMissingRejected ==
    \A r \in Reqs :
       (/\ LINE_CHANNEL_SECRET # ""
        /\ (req[r].sig = SigNone \/ req[r].sig # ExpectedSignature(r)))
          => /\ pc[r] = "done" => resp[r] = [status |-> 400, detail |-> "Invalid signature"]
             /\ pc[r] \notin {"authenticated", "parsed", "loop"}
             /\ \A k \in DOMAIN calls : calls[k].req # r

C7_LoopNeverAborted ==
    \A r \in Reqs :
       (pc[r] = "done" /\ idx[r] >= 1) =>
          /\ idx[r] >= Len(EventsOf(r))
          /\ \A i \in DOMAIN EventsOf(r) :
                Classify(EventsOf(r)[i]) = "actionable" => Len(Replies(r, i)) >= 1

\* the condition of the claim C8 on the fields of an event object
HasAllFields(e) ==
    /\ e.type = "message"
    /\ e.message = "dict" /\ e.mtype = "text" /\ ~Falsy(e.text)
    /\ e.source = "dict" /\ ~Falsy(e.userId)
    /\ ~Falsy(e.replyToken)

\* C8: a reply is sent for an event object exactly when its type is
\* "message", its message type is "text" and userId, replyToken and text are
\* present and non-empty; any other event object is ignored: no call is
\* issued for it and it is not an error.
C8_ReplyIffActionable ==
    \A r \in Reqs : \A i \in DOMAIN EventsOf(r) :
       LET e == EventsOf(r)[i]
       IN e.kind = "dict" =>
            /\ Len(Replies(r, i)) > 0 => HasAllFields(e)
            /\ (HasAllFields(e) /\ Handled(r, i)) => Len(Replies(r, i)) > 0
            /\ ~HasAllFields(e) =>
                  /\ Per(r, i) = <<>>
                  /\ ~(pc[r] = "done" /\ idx[r] = i /\ resp[r].status = 500)

\* C9: an authenticated request whose body does not deserialize as JSON is
\* answered with a 4xx status, and no call is issued for it.
C9_BadBodyIsClientError ==
    \A r \in Reqs :
       (/\ ~SignatureRejected(r)
        /\ JsonLoads(req[r].body) # "none")
          => /\ pc[r] = "done" => resp[r].status = 400
             /\ CallsOf(r) = <<>>

\* C10: when no secret is configured, verify_signature accepts every body
\* with every signature value, no request is answered "Invalid signature",
\* and the events the loop has gone through were dispatched: each actionable
\* one has got a reply call.
C10_EmptySecretSkips ==
    LINE_CHANNEL_SECRET = "" =>
       \A r \in Reqs :
          /\ verify_signature(req[r].body, req[r].sig)
          /\ resp[r].detail # "Invalid signature"
          /\ \A i \in DOMAIN EventsOf(r) :
                (Handled(r, i) /\ Classify(EventsOf(r)[i]) = "actionable")
                   => Len(Replies(r, i)) >= 1

\* witness of C10: no secret, a signature made with a wrong key, and the
\* request went on to reply and was answered 200 ok
C10_Witness ==
    /\ LINE_CHANNEL_SECRET = ""
    /\ \E r \in Reqs :
          /\ req[r].sig = B64Encode(HmacSha256("K2", req[r].body))
          /\ Len(Replies(r, 1)) = 1
          /\ resp[r] = Ok200

\* the smaller of two numbers
Min(a, b) == IF a <= b THEN a ELSE b

\* C11: the message list of every completion call is one system entry, then
\* the window, then one user entry with the new text: 2 to 12 entries; and
\* while the call is outstanding the window is the last min(10, n) of the n
\* turns the store holds for the user, oldest first.
C11_MessageList ==
    \A k \in DOMAIN calls :
       calls[k].op = "complete_once" =>
          LET m == calls[k].msgs
              n == Len(m)
              e == EventsOf(calls[k].req)[calls[k].ev]
              st == store[e.userId]
          IN /\ n >= 2 /\ n <= HistoryLimit + 2
             /\ m[1] = [role |-> "system", content |-> SystemPrompt]
             /\ m[n] = [role |-> "user", content |-> e.text]
             /\ \A j \in 2..(n - 1) : m[j].role \in {"user", "assistant"}
             /\ calls[k].res = "pending" =>
                   /\ n - 2 = Min(Len(st), 10)
                   /\ \A j \in 1..(n - 2) : m[j + 1] = st[Len(st) - (n - 2) + j]

\* witness of C11: a completion call for a user with 20 or more stored
\* turns, whose window is the last 10 of them
C11_Witness ==
    \E k \in DOMAIN calls :
       /\ calls[k].op = "complete_once" /\ calls[k].res = "pending"
       /\ Len(store[calls[k].user]) >= 20
       /\ Len(calls[k].msgs) = 12
       /\ calls[k].msgs[2] = store[calls[k].user][Len(store[calls[k].user]) - 9]
       /\ calls[k].msgs[11] = store[calls[k].user][Len(store[calls[k].user])]

\* the successful appends for user u, in call order
SavedCalls(u) ==
    SelectSeq(calls, LAMBDA c : c.op = "save_line_message"
                                   /\ c.user = u /\ c.res = "ok")

\* C12: with two requests of the same user in flight, every assistant turn
\* in the store directly follows the user turn of the same request: no turn
\* of the other request stands between the two turns of a pair.
C12_NoInterleaving ==
    /\ StoreMatchesCalls
    /\ \A u \in Users : \A k \in DOMAIN SavedCalls(u) :
         SavedCalls(u)[k].role = "assistant" =>
            /\ k > 1
            /\ SavedCalls(u)[k - 1].req = SavedCalls(u)[k].req
            /\ SavedCalls(u)[k - 1].ev = SavedCalls(u)[k].ev
            /\ store[u][k].role = "assistant"
            /\ store[u][k - 1] =
                  [role |-> "user",
                   content |-> EventsOf(SavedCalls(u)[k].req)[SavedCalls(u)[k].ev].text]

\* witness of C12: two requests of U1 whose handling overlapped (request 2
\* issued a call between two calls of request 1) and both pairs are stored
C12_Witness ==
    /\ Len(store["U1"]) = 4
    /\ \E j, k, l \in DOMAIN calls :
          /\ j < k /\ k < l
          /\ calls[j].req = 1 /\ calls[k].req = 2 /\ calls[l].req = 1

\* the fallback replies of an event, and whether one of its other calls raised
Fallbacks(r, i) == SelectSeq(Per(r, i), LAMBDA c : c.op = "reply_message"
                                                    /\ c.text = ErrorApology)
StepFailed(r, i) ==
    \E k \in DOMAIN Per(r, i) :
       /\ Per(r, i)[k].res = "raise"
       /\ ~(Per(r, i)[k].op = "reply_message" /\ Per(r, i)[k].text = ErrorApology)

\* C13: a fallback reply (error apology, the event's token) is attempted
\* exactly when the history read, the completion call, an append or the
\* reply call of the event has raised; it is attempted once, it is the last
\* call of the event, and nothing follows it when it fails itself.
C13_OneFallback ==
    \A r \in Reqs : \A i \in DOMAIN EventsOf(r) :
       /\ Len(Fallbacks(r, i)) <= 1
       /\ StepFailed(r, i) <=> Len(Fallbacks(r, i)) = 1
       /\ Len(Fallbacks(r, i)) = 1 =>
             /\ Per(r, i)[Len(Per(r, i))] = Fallbacks(r, i)[1]
             /\ Fallbacks(r, i)[1].token = EventsOf(r)[i].replyToken

\* witness of C13: the reply call raised, the one fallback raised too, and
\* handle_line_event has returned
C13_Witness ==
    \E r \in Reqs : \E i \in DOMAIN EventsOf(r) :
       /\ Handled(r, i)
       /\ Len(Per(r, i)) = 6
       /\ Per(r, i)[5].op = "reply_message" /\ Per(r, i)[5].res = "raise"
       /\ Len(Fallbacks(r, i)) = 1
       /\ Fallbacks(r, i)[1].res = "raise"

\* C14: handle_line_event returns normally for every event: the loop goes on
\* to the next event, and a request whose loop has started is answered 200 ok.
C14_NeverRaises ==
    \A r \in Reqs :
       (pc[r] = "done" /\ idx[r] >= 1) =>
          /\ resp[r] = Ok200
          /\ \A i \in DOMAIN EventsOf(r) : Handled(r, i)

\* C15: once every request is answered, the turns of each user alternate
\* user, assistant, user, assistant, ..., none being left without its
\* assistant turn.
C15_Alternation ==
    (\A r \in Reqs : pc[r] = "done") =>
       \A u \in Users :
          /\ Len(store[u]) % 2 = 0
          /\ \A k \in DOMAIN store[u] :
                store[u][k].role = IF k % 2 = 1 THEN "user" ELSE "assistant"

\* C16: when complete_once returns without content (key missing, null or
\* empty), the assistant turn that is appended and the reply that is sent
\* carry the no-content apology.
C16_NoContentApology ==
    \A r \in Reqs : \A i \in DOMAIN EventsOf(r) :
       \A k \in DOMAIN Per(r, i) :
          (Per(r, i)[k].op = "complete_once"
             /\ Per(r, i)[k].res \in {"missing", "null", "empty"}) =>
             \A j \in DOMAIN Per(r, i) :
                (\/ Per(r, i)[j].op = "save_line_message"
                       /\ Per(r, i)[j].role = "assistant"
                 \/ Per(r, i)[j].op = "reply_message"
                       /\ Per(r, i)[j].text # ErrorApology)
                  => Per(r, i)[j].text = NoContentApology

\* C17: when the history read of an event raises, no completion call and no
\* append is made for the event, and the one reply it gets is the error
\* apology with its token.
C17_ReadFailure ==
    \A r \in Reqs : \A i \in DOMAIN EventsOf(r) :
       (Len(Per(r, i)) >= 1 /\ Per(r, i)[1].res = "raise") =>
          /\ Per(r, i)[1].op = "get_line_conversation"
          /\ Len(Per(r, i)) = 2
          /\ Per(r, i)[2].op = "reply_message"
          /\ Per(r, i)[2].text = ErrorApology
          /\ Per(r, i)[2].token = EventsOf(r)[i].replyToken
          /\ \A k \in DOMAIN calls :
                (calls[k].req = r /\ calls[k].ev = i) =>
                    calls[k].op \notin {"complete_once", "save_line_message"}

\* witness of C17: an event whose history read raised, handled, with the
\* store of its user left empty
C17_Witness ==
    \E r \in Reqs : \E i \in DOMAIN EventsOf(r) :
       /\ Handled(r, i)
       /\ Len(Per(r, i)) = 2
       /\ Per(r, i)[1].op = "get_line_conversation"
       /\ Per(r, i)[1].res = "raise"
       /\ Len(Replies(r, i)) = 1
       /\ store[EventsOf(r)[i].userId] = <<>>

\* request r is inside a downstream call (store, completion or transport)
InDownstreamCall(r) ==
    pc[r] \in {"reading", "awaitCompletion", "savingUser", "savingAssistant",
               "awaitReply", "awaitFallback"}

\* some step of request r
StepOf(r) ==
    \/ line_webhook_verify(r)
    \/ line_webhook_parse(r)
    \/ line_webhook_events(r)
    \/ handle_line_event(r)
    \/ get_user_conversation_returns(r)
    \/ complete_once_returns(r)
    \/ save_user_turn_returns(r)
    \/ save_assistant_turn_returns(r)
    \/ reply_message_returns(r)
    \/ fallback_returns(r)
    \/ line_webhook_return(r)

\* the user of the one event of request r
UserOf(r) == EventsOf(r)[1].userId

\* C18: while a request is inside a downstream call of any kind, a
\* concurrent request of another user that is not yet answered can take its
\* next step.
C18_NonBlocking ==
    \A r, r2 \in Reqs :
       (/\ r # r2
        /\ Len(EventsOf(r)) = 1 /\ Len(EventsOf(r2)) = 1
        /\ UserOf(r) # UserOf(r2)
        /\ InDownstreamCall(r)
        /\ pc[r2] # "done")
          => ENABLED StepOf(r2)

(* ------------------------------ liveness -------------------------------- *)

\* The event loop keeps running the coroutine of a request, and every
\* downstream call eventually returns or raises: a step that stays possible
\* is eventually taken.
\* one request with any kind of body and any signature header, its events
\* being text messages, events of another type and elements that are not
\* objects
LifecycleEnvelopes ==
    { e \in Envelopes :
        \A i \in DOMAIN e :
           e[i] \in {Ev1, Ev2, [Ev1 EXCEPT !.kind = "nondict"],
                     [Ev1 EXCEPT !.type = "follow"]} }

InitLifecycle ==
    /\ InitWith({1})
    /\ req[1].body.events \in LifecycleEnvelopes

FairSpec == InitLifecycle /\ [][Next]_vars /\ WF_vars(Next)

\* the stage of the request: Received, Authenticated, Parsed, Dispatched,
\* and the terminal state
Stage(p) ==
    CASE p = "received" -> 1
      [] p = "authenticated" -> 2
      [] p = "parsed" -> 3
      [] p = "done" -> 5
      [] OTHER -> 4

\* an exception leaves line_webhook: a body that is not UTF-8, a parsed value
\* whose events cannot be iterated, or an element the filter raises on
Escapes(r) ==
    \/ JsonLoads(req[r].body) = "UnicodeDecodeError"
    \/ DataEvents(req[r].body).exc # "none"
    \/ \E i \in DOMAIN EventsOf(r) : Classify(EventsOf(r)[i]) = "raise"

\* the response the request ends with
Terminal(r) ==
    IF SignatureRejected(r) THEN [status |-> 400, detail |-> "Invalid signature"]
    ELSE IF JsonLoads(req[r].body) = "JSONDecodeError"
    THEN [status |-> 400, detail |-> "Invalid JSON"]
    ELSE IF Escapes(r) THEN [status |-> 500, detail |-> resp[r].detail]
    ELSE Ok200

\* C19 as stated: every answered request is Acknowledged (200 ok), except a
\* request that failed authentication, which is Rejected.
C19_AlwaysAcknowledged ==
    \A r \in Reqs :
       pc[r] = "done" =>
          IF SignatureRejected(r) THEN resp[r].status = 400 ELSE resp[r] = Ok200

\* C19 amended: every request is eventually answered, once; it moves through
\* the stages in order, one at a time or straight to its terminal state; the
\* terminal state is Rejected (400) for a rejected signature and for a body
\* that is not JSON text, a 500 when an exception leaves line_webhook, and
\* Acknowledged (200 ok), after the Dispatched stage, in every other case.
C19_Lifecycle ==
    /\ <>(\A r \in Reqs : pc[r] = "done")
    /\ [](\A r \in Reqs :
            /\ pc[r] # "done" => resp[r] = NoResponse
            /\ pc[r] = "done" => resp[r] = Terminal(r)
            /\ resp[r] = Ok200 => idx[r] = Len(EventsOf(r)) + 1)
    /\ [][\A r \in Reqs :
            /\ Stage(pc'[r]) \in {Stage(pc[r]), Stage(pc[r]) + 1, 5}
            /\ pc[r] = "done" => (pc'[r] = "done" /\ resp'[r] = resp[r])]_vars

\* witness of C19: a request whose body is not JSON text, answered 400
C19_Witness ==
    \E r \in Reqs :
       /\ ~SignatureRejected(r)
       /\ JsonLoads(req[r].body) = "JSONDecodeError"
       /\ pc[r] = "done"
       /\ resp[r] = [status |-> 400, detail |-> "Invalid JSON"]

\* C20: the events of a request are handled one after the other in envelope
\* order: the calls of a request are issued in the order of its events, each
\* for the user and with the token of its own event, and none for an event
\* while a call of an earlier event is outstanding; so the completion call
\* of a later event of the same user has the pair persisted by the earlier
\* event in its window.
C20_Sequential ==
    \A r \in Reqs :
       /\ \A j, k \in DOMAIN calls :
            (j < k /\ calls[j].req = r /\ calls[k].req = r) =>
               /\ calls[j].ev <= calls[k].ev
               /\ calls[j].ev < calls[k].ev => calls[j].res # "pending"
       /\ \A k \in DOMAIN calls :
            calls[k].req = r =>
               LET e == EventsOf(r)[calls[k].ev]
               IN IF calls[k].op = "reply_message"
                  THEN calls[k].token = e.replyToken
                  ELSE calls[k].user = e.userId
       /\ \A i, j \in DOMAIN EventsOf(r) :
            (/\ i < j
             /\ EventsOf(r)[i].userId = EventsOf(r)[j].userId
             /\ Len(Saves(r, i)) = 2
             /\ Saves(r, i)[2].res = "ok") =>
               \A k \in DOMAIN Per(r, j) :
                  Per(r, j)[k].op = "complete_once" =>
                     \E q \in 2..(Len(Per(r, j)[k].msgs) - 2) :
                        /\ Per(r, j)[k].msgs[q] =
                              [role |-> "user", content |-> EventsOf(r)[i].text]
                        /\ Per(r, j)[k].msgs[q + 1] =
                              [role |-> "assistant",
                               content |-> Saves(r, i)[2].text]

\* witness of C20: two text messages of U1 in one envelope, the second one's
\* completion call issued after the first one's pair was stored and replied
C20_Witness ==
    \E r \in Reqs :
       /\ Len(EventsOf(r)) = 2
       /\ EventsOf(r)[1].userId = EventsOf(r)[2].userId
       /\ Len(Per(r, 1)) = 5
       /\ Per(r, 1)[5].res = "ok"
       /\ Len(Per(r, 2)) = 2
       /\ Per(r, 2)[2].op = "complete_once"
       /\ Len(Per(r, 2)[2].msgs) >= 4

====
